---- MODULE Spec2Model ----
(***************************************************************************)
(* clara: a JSON-RPC gateway that serves the `zks` namespace and forwards  *)
(* every call to one upstream JSON-RPC endpoint (src/src/rpc.rs), turning  *)
(* upstream failures into one error object (src/src/lib.rs).  The process  *)
(* bootstrap is src/src/main.rs.                                           *)
(***************************************************************************)
EXTENDS Integers, Sequences, FiniteSets, TLC

(* ------------------------------ bounds -------------------------------- *)

\* Inbound calls that can be in flight at once (slots of the model).
MaxCalls == 2
\* Addresses, hashes and call-request objects are numbered 0..MaxVal.
MaxVal == 1
\* Longest list of storage keys a caller sends to getProof.
MaxKeys == 1

(* --------------------- the declared API surface ----------------------- *)

\* #[rpc(server, client, namespace = "zks")]
Namespace == "zks"

\* The rpc macro joins the namespace and the method name with an underscore.
NamespaceSeparator == "_"

\* One entry per method of trait ZksApi, in declaration order: the Rust
\* function, its #[method(name = ...)] and the types of its parameters.
ZksApi ==
  << [fn |-> "estimate_gas_l1_to_l2",      name |-> "estimateGasL1ToL2",
      params |-> <<"CallRequest">>],
     [fn |-> "get_main_contract",          name |-> "getMainContract",
      params |-> <<>>],
     [fn |-> "get_testnet_paymaster",      name |-> "getTestnetPaymaster",
      params |-> <<>>],
     [fn |-> "get_bridge_contracts",       name |-> "getBridgeContracts",
      params |-> <<>>],
     [fn |-> "l1_chain_id",                name |-> "L1ChainId",
      params |-> <<>>],
     [fn |-> "get_confirmed_tokens",       name |-> "getConfirmedTokens",
      params |-> <<"u32", "u8">>],
     [fn |-> "get_token_price",            name |-> "getTokenPrice",
      params |-> <<"Address">>],
     [fn |-> "get_all_account_balances",   name |-> "getAllAccountBalances",
      params |-> <<"Address">>],
     [fn |-> "get_l2_to_l1_msg_proof",     name |-> "getL2ToL1MsgProof",
      params |-> <<"MiniblockNumber", "Address", "H256", "Option<usize>">>],
     [fn |-> "get_l2_to_l1_log_proof",     name |-> "getL2ToL1LogProof",
      params |-> <<"H256", "Option<usize>">>],
     [fn |-> "get_l1_batch_number",        name |-> "L1BatchNumber",
      params |-> <<>>],
     [fn |-> "get_miniblock_range",        name |-> "getL1BatchBlockRange",
      params |-> <<"L1BatchNumber">>],
     [fn |-> "get_block_details",          name |-> "getBlockDetails",
      params |-> <<"MiniblockNumber">>],
     [fn |-> "get_transaction_details",    name |-> "getTransactionDetails",
      params |-> <<"H256">>],
     [fn |-> "get_raw_block_transactions", name |-> "getRawBlockTransactions",
      params |-> <<"MiniblockNumber">>],
     [fn |-> "get_l1_batch_details",       name |-> "getL1BatchDetails",
      params |-> <<"L1BatchNumber">>],
     [fn |-> "get_bytecode_by_hash",       name |-> "getBytecodeByHash",
      params |-> <<"H256">>],
     [fn |-> "get_l1_gas_price",           name |-> "getL1GasPrice",
      params |-> <<>>],
     [fn |-> "get_fee_params",             name |-> "getFeeParams",
      params |-> <<>>],
     [fn |-> "get_protocol_version",       name |-> "getProtocolVersion",
      params |-> <<"Option<u16>">>],
     [fn |-> "get_proof",                  name |-> "getProof",
      params |-> <<"Address", "Vec<H256>", "L1BatchNumber">> ] >>

Methods == {ZksApi[i] : i \in 1..Len(ZksApi)}

\* A mistaken separator: the namespace and the method joined by a dot.
WireNameDotted(m) == Namespace \o "." \o m.name

\* The name a method is registered under on the server, and called by on the
\* generated client: namespace, separator, method name.
WireName(m) == Namespace \o NamespaceSeparator \o m.name

\* The names into_rpc() registers.
Registered == {WireName(m) : m \in Methods}

\* The method registered under a wire name (names are unique).
MethodNamed(wire) == CHOOSE m \in Methods : WireName(m) = wire

\* The method declared by a Rust function of the trait.
MethodOfFn(f) == CHOOSE m \in Methods : m.fn = f

\* What each handler of `impl ZksApiServer for Server` does with its decoded
\* arguments: the ZksApiClient function it calls on self.zksync, and which of
\* its own arguments it passes, in the order it passes them.
Handlers ==
  [f \in {m.fn : m \in Methods} |->
     CASE f = "estimate_gas_l1_to_l2" ->
            [client |-> "estimate_gas_l1_to_l2", args |-> <<1>>]
       [] f = "get_main_contract" ->
            [client |-> "get_main_contract", args |-> <<>>]
       [] f = "get_testnet_paymaster" ->
            [client |-> "get_testnet_paymaster", args |-> <<>>]
       [] f = "get_bridge_contracts" ->
            [client |-> "get_bridge_contracts", args |-> <<>>]
       [] f = "l1_chain_id" ->
            [client |-> "l1_chain_id", args |-> <<>>]
       [] f = "get_confirmed_tokens" ->
            [client |-> "get_confirmed_tokens", args |-> <<1, 2>>]
       [] f = "get_token_price" ->
            [client |-> "get_token_price", args |-> <<1>>]
       [] f = "get_all_account_balances" ->
            [client |-> "get_all_account_balances", args |-> <<1>>]
       [] f = "get_l2_to_l1_msg_proof" ->
            [client |-> "get_l2_to_l1_msg_proof", args |-> <<1, 2, 3, 4>>]
       [] f = "get_l2_to_l1_log_proof" ->
            [client |-> "get_l2_to_l1_log_proof", args |-> <<1, 2>>]
       [] f = "get_l1_batch_number" ->
            [client |-> "get_l1_batch_number", args |-> <<>>]
       [] f = "get_miniblock_range" ->
            [client |-> "get_miniblock_range", args |-> <<1>>]
       [] f = "get_block_details" ->
            [client |-> "get_block_details", args |-> <<1>>]
       [] f = "get_transaction_details" ->
            [client |-> "get_transaction_details", args |-> <<1>>]
       [] f = "get_raw_block_transactions" ->
            [client |-> "get_raw_block_transactions", args |-> <<1>>]
       [] f = "get_l1_batch_details" ->
            [client |-> "get_l1_batch_details", args |-> <<1>>]
       [] f = "get_bytecode_by_hash" ->
            [client |-> "get_bytecode_by_hash", args |-> <<1>>]
       [] f = "get_l1_gas_price" ->
            [client |-> "get_l1_gas_price", args |-> <<>>]
       [] f = "get_fee_params" ->
            [client |-> "get_fee_params", args |-> <<>>]
       [] f = "get_protocol_version" ->
            [client |-> "get_protocol_version", args |-> <<1>>]
       [] f = "get_proof" ->
            [client |-> "get_proof", args |-> <<1, 2, 3>>] ]

(* ---------------------- JSON values on the wire ----------------------- *)

\* A JSON value: its kind and, as a sequence of numbers, its content.
JNum(n)   == [k |-> "number",  v |-> <<n>>]
JAddr(a)  == [k |-> "address", v |-> <<a>>]
JHash(h)  == [k |-> "hash",    v |-> <<h>>]
JObj(o)   == [k |-> "object",  v |-> <<o>>]
JList(hs) == [k |-> "array",   v |-> hs]
JNull     == [k |-> "null",    v |-> <<>>]

\* The numbers callers send: an offset of 0, a limit of 10, and 300, which
\* does not fit the 8 bits of a limit.
NumVals == {0, 10, 300}

Vals == 0..MaxVal

RECURSIVE SeqsUpTo(_, _)
\* The sequences over S of length at most n.
SeqsUpTo(S, n) ==
  IF n = 0 THEN {<<>>}
  ELSE LET shorter == SeqsUpTo(S, n - 1)
       IN  shorter \cup {Append(q, x) : q \in shorter, x \in S}

JsonVals ==
  {JNum(n) : n \in NumVals} \cup {JAddr(a) : a \in Vals}
    \cup {JHash(h) : h \in Vals} \cup {JObj(o) : o \in Vals}
    \cup {JList(hs) : hs \in SeqsUpTo(Vals, MaxKeys)} \cup {JNull}

(* ------------- parameter decoding of the generated server ------------- *)

\* A decoded argument: its Rust type and its content.  An Option holds no
\* number (None) or one (Some).
Typed(ty, v) == [ty |-> ty, v |-> v]

DecodeError == [ty |-> "error", v |-> <<>>]

IsOption(ty) == ty \in {"Option<usize>", "Option<u16>"}

\* The JSON kind a declared parameter type is read from.
KindOf(ty) ==
  CASE ty = "CallRequest" -> "object"
    [] ty = "Address"     -> "address"
    [] ty = "H256"        -> "hash"
    [] ty = "Vec<H256>"   -> "array"
    [] OTHER              -> "number"

\* Whether a number fits an unsigned integer type.  The 32- and 64-bit types
\* hold every number of NumVals; the narrow ones are limit: u8 and
\* version_id: Option<u16>.
Fits(ty, n) ==
  CASE ty = "u8"          -> n \in 0..255
    [] ty = "Option<u16>" -> n \in 0..65535
    [] OTHER              -> n >= 0

\* A reader that takes any number for any integer type, whatever its width.
DecodeValueUnchecked(ty, j) ==
  IF IsOption(ty) /\ j = JNull THEN Typed(ty, <<>>)
  ELSE IF j.k # KindOf(ty) THEN DecodeError
  ELSE Typed(ty, j.v)

\* Reading one JSON value as a declared type.
DecodeValue(ty, j) ==
  IF IsOption(ty) /\ j = JNull THEN Typed(ty, <<>>)
  ELSE IF j.k # KindOf(ty) THEN DecodeError
  ELSE IF j.k = "number" /\ ~Fits(ty, j.v[1]) THEN DecodeError
  ELSE Typed(ty, j.v)

\* seq.next() / seq.optional_next() of the generated code: the i-th value of
\* the parameter array read as the i-th declared type; a missing value is an
\* error, except that a missing Option is None.
DecodeNext(ty, params, i) ==
  IF i > Len(params)
    THEN IF IsOption(ty) THEN Typed(ty, <<>>) ELSE DecodeError
    ELSE DecodeValue(ty, params[i])

\* The parameters did not decode: the call has no Call Context.
Rejected == [ok |-> FALSE, args |-> <<>>]

\* The Call Context of a method: one value read per declared parameter, in
\* declaration order.  The generated code reads nothing past the last declared
\* parameter, so values beyond it are not looked at.
Decode(m, params) ==
  LET ctx == [i \in 1..Len(m.params) |-> DecodeNext(m.params[i], params, i)]
  IN  IF \E i \in 1..Len(ctx) : ctx[i] = DecodeError
        THEN Rejected ELSE [ok |-> TRUE, args |-> ctx]

(* ------------------------- the handlers ------------------------------- *)

\* A handler that passes its arguments to the client in reverse order.
UpstreamCallReversed(m, ctx) ==
  LET h == Handlers[m.fn]
  IN  [name |-> WireName(MethodOfFn(h.client)),
       args |-> [i \in 1..Len(h.args) |-> ctx[h.args[Len(h.args) + 1 - i]]]]

\* The one call a handler makes on self.zksync: the client function named in
\* its body, under that function's wire name, with the arguments it passes.
UpstreamCall(m, ctx) ==
  LET h == Handlers[m.fn]
  IN  [name |-> WireName(MethodOfFn(h.client)),
       args |-> [i \in 1..Len(h.args) |-> ctx[h.args[i]]]]

(* ----------------------- the error translator ------------------------ *)

\* The code of every error object built by From<ClaraError>.
SentinelCode == -32000

\* What the upstream client returns for a call: Ok(value) or Err(ClientError).
Ok(v)  == [tag |-> "Ok",  value |-> v]
Err(e) == [tag |-> "Err", error |-> e]
Pending == [tag |-> "pending"]

\* ClientError::Call: the upstream answered with an error object.
CallError(code, message) ==
  [origin |-> "call", code |-> code, message |-> message]

\* ClientError::Transport: the request never got an answer.  The description
\* is the text the failure prints as.
TransportError(description) ==
  [origin |-> "transport", code |-> 0, message |-> description]

\* How a JSON-RPC error code prints.
ErrorCodeDebug(c) ==
  CASE c = -32601 -> "MethodNotFound"
    [] c = -32602 -> "InvalidParams"
    [] OTHER      -> "ServerError(" \o ToString(c) \o ")"

\* A rendering that keeps only the message text of the upstream's error.
ToStringMessageOnly(e) == e.message

\* error.to_string(): both variants of ClaraError are #[error(transparent)],
\* so the text is the ClientError's own.  A Call error prints its error
\* object, code and message and data; a Transport error prints its description.
ToStringOf(e) ==
  IF e.origin = "call"
    THEN "ErrorObject { code: " \o ErrorCodeDebug(e.code)
           \o ", message: \"" \o e.message \o "\", data: None }"
    ELSE e.message

\* A translator that hands the upstream's own code on to the caller.
ErrorObjectKeepingCode(e) ==
  [kind |-> "error", code |-> IF e.origin = "call" THEN e.code ELSE SentinelCode,
   message |-> ToStringOf(e), data |-> "absent"]

\* impl From<ClaraError> for ErrorObject:
\* ErrorObject::owned(-32000, error.to_string(), None::<()>).
ErrorObjectFrom(e) ==
  [kind |-> "error", code |-> SentinelCode, message |-> ToStringOf(e),
   data |-> "absent"]

\* The handler's return value, as the server answers it: .map_err(Into::into)
\* leaves Ok(v) as it is and turns a ClientError into a ClaraError, which the
\* server turns into the error object of the response.
HandlerResult(o) ==
  IF o.tag = "Ok" THEN [kind |-> "result", value |-> o.value]
                  ELSE ErrorObjectFrom(o.error)

\* The protocol's own answers, given without running a handler.
MethodNotFound ==
  [kind |-> "error", code |-> -32601, message |-> "Method not found",
   data |-> "absent"]
InvalidParams ==
  [kind |-> "error", code |-> -32602, message |-> "Invalid params",
   data |-> "absent"]
NoResponse == [kind |-> "none"]
NoRequest  == [name |-> "", params |-> <<>>]

(* ------------------------------ inputs -------------------------------- *)

\* What the upstream may answer: a value (9, or a list of 3), a structured
\* error, or no answer at all.
Results == {9, 3}
ClientErrors ==
  {CallError(-32010, "unknown token"), TransportError("connection refused")}
Outcomes == {Ok(v) : v \in Results} \cup {Err(e) : e \in ClientErrors}

\* The JSON values a declared type accepts.
JsonOf(ty) == {j \in JsonVals : DecodeValue(ty, j) # DecodeError}

RECURSIVE Tuples(_)
\* The parameter arrays that give each declared parameter a value it accepts.
Tuples(types) ==
  IF types = <<>> THEN {<<>>}
  ELSE {<<j>> \o t : j \in JsonOf(Head(types)), t \in Tuples(Tail(types))}

\* One value of each kind, to put where it does not belong.
Strays == {JNum(0), JNum(300), JAddr(0), JHash(0), JObj(0), JList(<<>>), JNull}

\* The parameter arrays tried on a declared method: the right ones, those cut
\* short, those with one value replaced and those with one value too many.
ParamInputs(m) ==
  LET valid == Tuples(m.params)
  IN  valid
        \cup {SubSeq(t, 1, n) : t \in valid, n \in 0..(Len(m.params) - 1)}
        \cup {[t EXCEPT ![i] = s] : t \in valid, i \in 1..Len(m.params), s \in Strays}
        \cup {Append(t, s) : t \in valid, s \in Strays}

\* Names no method is registered under.
UndeclaredNames ==
  {WireNameDotted(m) : m \in Methods} \cup {"L1ChainId", "zks_l1_chain_id", "eth_chainId"}

\* Every request tried on the API surface.
SurfaceRequests ==
  UNION {{[name |-> WireName(m), params |-> p] : p \in ParamInputs(m)} : m \in Methods}
    \cup {[name |-> n, params |-> p] : n \in UndeclaredNames, p \in {<<>>, <<JNum(0)>>}}

\* The requests callers send concurrently.
SampleRequests ==
  { [name |-> "zks_L1ChainId",     params |-> <<>>],
    [name |-> "zks_getTokenPrice", params |-> <<JAddr(0)>>],
    [name |-> "zks_getTokenPrice", params |-> <<JAddr(MaxVal)>>],
    [name |-> "zks_getTokenPrice", params |-> <<>>],
    [name |-> "zks.L1ChainId",     params |-> <<>>] }

(* ------------------------------- state -------------------------------- *)

Calls == 1..MaxCalls

VARIABLES
  pc,           \* main: "start", "serving", "panicked" or "exited"
  bound,        \* the listener: "unbound", "bound" or "refused"
  stdout,       \* lines main printed
  exitCode,     \* <<>> while the process runs, then <<its exit status>>
  phase,        \* per call: "idle", "awaiting", "completed" or "done"
  request,      \* per call: the inbound method name and parameter array
  upstream,     \* per call: the calls its handler made on self.zksync
  outcome,      \* per call: what its upstream call returned, once it has
  response,     \* per call: what the caller was answered
  finished,     \* the calls answered so far, in the order they were answered
  failedBefore  \* per call: whether a handler had failed when it arrived

vars == <<pc, bound, stdout, exitCode, phase, request, upstream, outcome,
          response, finished, failedBefore>>

procVars == <<pc, bound, stdout, exitCode>>

\* Server::new(client): nothing bound, nothing served.
Init ==
  /\ pc = "start"
  /\ bound = "unbound"
  /\ stdout = <<>>
  /\ exitCode = <<>>
  /\ phase = [r \in Calls |-> "idle"]
  /\ request = [r \in Calls |-> NoRequest]
  /\ upstream = [r \in Calls |-> <<>>]
  /\ outcome = [r \in Calls |-> Pending]
  /\ response = [r \in Calls |-> NoResponse]
  /\ finished = <<>>
  /\ failedBefore = [r \in Calls |-> FALSE]

(* ------------------------- process bootstrap -------------------------- *)

\* How Server::run ends: build("127.0.0.1:7000").await.unwrap() panics when
\* the listener cannot be bound; server.local_addr()? returns the error; and
\* otherwise the server is started and (addr, handle) returned.
RunResult(bindOk, addrOk) ==
  IF ~bindOk THEN "panic" ELSE IF ~addrOk THEN "Err" ELSE "Ok"

\* main, from server.run().await to where it blocks or ends.  A panic unwinds
\* out of main: nothing is printed to stdout and the exit status is 101.
\* Err(e) is printed and main returns Ok(()): exit status 0.  Ok prints the
\* address and waits on handle.stopped(), which nothing in the process ends.
Main(bindOk, addrOk) ==
  /\ pc = "start"
  /\ LET res == RunResult(bindOk, addrOk)
     IN  /\ bound' = IF bindOk THEN "bound" ELSE "refused"
         /\ pc' = CASE res = "panic" -> "panicked"
                    [] res = "Err"   -> "exited"
                    [] OTHER         -> "serving"
         /\ stdout' = CASE res = "panic" -> stdout
                        [] res = "Err"   -> Append(stdout, "Failed to start server")
                        [] OTHER         -> Append(stdout, "port 127.0.0.1:7000")
         /\ exitCode' = CASE res = "panic" -> <<101>>
                          [] res = "Err"   -> <<0>>
                          [] OTHER         -> exitCode
  /\ UNCHANGED <<phase, request, upstream, outcome, response, finished,
                 failedBefore>>

(* --------------------------- serving calls ---------------------------- *)

\* A server that stops taking calls once a handler has failed.
AcceptingUntilFailure ==
  /\ pc = "serving"
  /\ \A q \in Calls : outcome[q].tag # "Err"

\* The started server takes calls for as long as the process runs.
Accepting == pc = "serving"

\* A handler that calls the upstream a second time.
CallsMadeTwice(m, ctx) == <<UpstreamCall(m, ctx), UpstreamCall(m, ctx)>>

\* The calls a handler makes on self.zksync before it suspends: the one.
CallsMade(m, ctx) == <<UpstreamCall(m, ctx)>>

\* Whether a handler failed and its call was answered.
Failed(q) == phase[q] = "done" /\ outcome[q].tag = "Err"

\* An inbound request arrives and is dispatched.  A name that is not
\* registered and parameters that do not decode are answered at once, with
\* no handler run.  Otherwise the handler runs up to its .await: it has made
\* its call on self.zksync and is suspended.
Receive(r, req) ==
  /\ Accepting
  /\ phase[r] = "idle"
  /\ \A q \in Calls : q < r => phase[q] # "idle"
  /\ request' = [request EXCEPT ![r] = req]
  /\ failedBefore' = [failedBefore EXCEPT ![r] = \E q \in Calls : Failed(q)]
  /\ IF req.name \notin Registered
       THEN /\ response' = [response EXCEPT ![r] = MethodNotFound]
            /\ phase' = [phase EXCEPT ![r] = "done"]
            /\ finished' = Append(finished, r)
            /\ UNCHANGED upstream
       ELSE LET m   == MethodNamed(req.name)
                dec == Decode(m, req.params)
                ctx == dec.args
            IN  IF ~dec.ok
                  THEN /\ response' = [response EXCEPT ![r] = InvalidParams]
                       /\ phase' = [phase EXCEPT ![r] = "done"]
                       /\ finished' = Append(finished, r)
                       /\ UNCHANGED upstream
                  ELSE /\ upstream' = [upstream EXCEPT ![r] = @ \o CallsMade(m, ctx)]
                       /\ phase' = [phase EXCEPT ![r] = "awaiting"]
                       /\ UNCHANGED <<response, finished>>
  /\ UNCHANGED <<procVars, outcome>>

\* The upstream client's future of call r resolves, with a value or an error.
UpstreamReply(r, o) ==
  /\ phase[r] = "awaiting"
  /\ outcome' = [outcome EXCEPT ![r] = o]
  /\ phase' = [phase EXCEPT ![r] = "completed"]
  /\ UNCHANGED <<procVars, request, upstream, response, finished, failedBefore>>

\* A handler that takes whichever upstream answer came in first.
AwaitedAny(r) ==
  outcome[CHOOSE q \in Calls : phase[q] = "completed"
                                /\ \A p \in Calls : phase[p] = "completed" => q <= p]

\* What a handler's .await yields: the answer to the call it made itself.
Awaited(r) == outcome[r]

\* A server that resumes handlers in arrival order only.
CanResumeInOrder(r) ==
  /\ phase[r] = "completed"
  /\ \A q \in Calls : q < r => phase[q] = "done"

\* A suspended handler can run again as soon as its own call has resolved.
CanResume(r) == phase[r] = "completed"

\* The handler resumes after .await, maps the error and returns; the server
\* answers the caller.
HandlerResume(r) ==
  /\ CanResume(r)
  /\ response' = [response EXCEPT ![r] = HandlerResult(Awaited(r))]
  /\ phase' = [phase EXCEPT ![r] = "done"]
  /\ finished' = Append(finished, r)
  /\ UNCHANGED <<procVars, request, upstream, outcome, failedBefore>>

(* --------------------------- specifications --------------------------- *)

\* Concurrent callers: up to MaxCalls calls in flight, in any interleaving.
Next ==
  \/ \E bindOk \in BOOLEAN, addrOk \in BOOLEAN : Main(bindOk, addrOk)
  \/ \E r \in Calls, req \in SampleRequests : Receive(r, req)
  \/ \E r \in Calls, o \in Outcomes : UpstreamReply(r, o)
  \/ \E r \in Calls : HandlerResume(r)

Spec == Init /\ [][Next]_vars

\* One caller trying every request of the API surface.
NextSurface ==
  \/ \E bindOk \in BOOLEAN, addrOk \in BOOLEAN : Main(bindOk, addrOk)
  \/ \E req \in SurfaceRequests : Receive(1, req)
  \/ \E o \in Outcomes : UpstreamReply(1, o)
  \/ HandlerResume(1)

SpecSurface == Init /\ [][NextSurface]_vars

\* The same callers, with the runtime's guarantee that a handler whose
\* upstream call has resolved is polled again.  Nothing makes the upstream
\* answer: a call may stay pending for ever.
SpecFair == Spec /\ \A r \in Calls : WF_vars(HandlerResume(r))

(* ============================== claims ================================ *)

\* Whether the handler of call r ran: the call was dispatched to it.
HandlerRan(r) ==
  \/ phase[r] \in {"awaiting", "completed"}
  \/ phase[r] = "done" /\ outcome[r] # Pending

\* Whether call r was answered by the upstream call made for its own request.
OwnAnswer(r) ==
  /\ outcome[r].tag = "Ok" =>
       response[r] = [kind |-> "result", value |-> outcome[r].value]
  /\ outcome[r].tag = "Err" =>
       /\ response[r].kind = "error"
       /\ response[r].message = ToStringOf(outcome[r].error)

\* Whether the handler of call r called the upstream under the inbound name
\* with the inbound parameters as decoded.
OwnCall(r) ==
  \A i \in 1..Len(upstream[r]) :
    /\ upstream[r][i].name = request[r].name
    /\ upstream[r][i].args = Decode(MethodNamed(request[r].name), request[r].params).args

\* Whether a parameter array leaves out a required parameter of method m.
TooFew(m, p) ==
  \E i \in 1..Len(m.params) : i > Len(p) /\ ~IsOption(m.params[i])

\* Whether a parameter array has more values than method m declares.
TooMany(m, p) == Len(p) > Len(m.params)

\* Whether a JSON value is not of a declared type.
Mistyped(ty, j) ==
  /\ ~(IsOption(ty) /\ j = JNull)
  /\ \/ j.k # KindOf(ty)
     \/ ty = "u8" /\ j.v[1] > 255

\* Whether a parameter array gives a declared parameter of m a wrong value.
WrongType(m, p) ==
  \E i \in 1..Len(m.params) : i <= Len(p) /\ Mistyped(m.params[i], p[i])

\* Whether a parameter array gives method m what it declares: a value of the
\* declared type for each parameter, an optional one possibly left out at the
\* end or given as null, and nothing more.
ValidParams(m, p) == ~TooFew(m, p) /\ ~TooMany(m, p) /\ ~WrongType(m, p)

\* C1: for each of the 21 methods and each valid parameter array, the handler
\* calls the upstream under the same wire name with the same values in the
\* same order, and when the upstream returns v the caller's result is v.
C1_Forwarded ==
  \A r \in Calls :
    (phase[r] # "idle" /\ request[r].name \in Registered) =>
      LET m == MethodNamed(request[r].name)
          p == request[r].params
      IN  ValidParams(m, p) =>
            /\ Len(upstream[r]) >= 1
            /\ upstream[r][1].name = request[r].name
            /\ Len(upstream[r][1].args) = Len(m.params)
            /\ \A i \in 1..Len(m.params) :
                 upstream[r][1].args[i] =
                   Typed(m.params[i],
                         IF i > Len(p) \/ p[i] = JNull THEN <<>> ELSE p[i].v)
            /\ (phase[r] = "done" /\ outcome[r].tag = "Ok") =>
                 response[r] = [kind |-> "result", value |-> outcome[r].value]

\* getConfirmedTokens(0, 10) was forwarded and answered with the upstream's 3.
C1_Witness ==
  /\ phase[1] = "done"
  /\ request[1] = [name |-> "zks_getConfirmedTokens", params |-> <<JNum(0), JNum(10)>>]
  /\ upstream[1] = << [name |-> "zks_getConfirmedTokens",
                       args |-> <<Typed("u32", <<0>>), Typed("u8", <<10>>)>>] >>
  /\ response[1] = [kind |-> "result", value |-> 3]

\* C2: whenever a handler's upstream call fails, by a structured error or by a
\* transport failure, the caller is answered an error with code -32000, the
\* failure's rendered text as message and no data; a handler produces no other
\* error code.
C2_CanonicalError ==
  \A r \in Calls :
    (HandlerRan(r) /\ phase[r] = "done") =>
      /\ outcome[r].tag = "Err" =>
           /\ response[r].kind = "error"
           /\ response[r].code = -32000
           /\ response[r].message = ToStringOf(outcome[r].error)
           /\ response[r].data = "absent"
      /\ response[r].kind = "error" => response[r].code = -32000

\* A call whose upstream call got no answer was answered the canonical error.
C2_Witness ==
  /\ phase[1] = "done"
  /\ outcome[1] = Err(TransportError("connection refused"))
  /\ response[1] = [kind |-> "error", code |-> -32000,
                    message |-> "connection refused", data |-> "absent"]

\* Whether call r is a getTokenPrice call the upstream failed with the
\* structured error -32010 "unknown token", and has been answered.
UnknownTokenCase(r) ==
  /\ phase[r] = "done"
  /\ request[r].name = "zks_getTokenPrice"
  /\ outcome[r] = Err(CallError(-32010, "unknown token"))

\* C3 as stated: when getTokenPrice fails upstream with code -32010 and
\* message "unknown token", the outbound error has the sentinel code and the
\* message exactly "unknown token".
C3_MessageOnly ==
  \A r \in Calls :
    UnknownTokenCase(r) =>
      /\ response[r].code = -32000
      /\ response[r].message = "unknown token"

\* C3 as amended: in that case the outbound error has the sentinel code, no
\* data, and as message the rendering of the upstream's whole error object,
\* which spells out the upstream's code and message.
C3_RenderedErrorObject ==
  \A r \in Calls :
    UnknownTokenCase(r) =>
      /\ response[r].code = -32000
      /\ response[r].data = "absent"
      /\ response[r].message =
           "ErrorObject { code: ServerError(-32010), message: \"unknown token\", data: None }"

\* A getTokenPrice call failed upstream with -32010 and was answered.
C3_Witness ==
  /\ UnknownTokenCase(1)
  /\ response[1].kind = "error"

\* C4: every inbound call that reaches a handler has caused exactly one
\* upstream call, while it is pending and after it succeeded or failed.
C4_OneUpstreamCall ==
  \A r \in Calls : HandlerRan(r) => Len(upstream[r]) = 1

\* A call failed and one succeeded, each with its single upstream call.
C4_Witness ==
  \E r, q \in Calls :
    /\ phase[r] = "done" /\ outcome[r].tag = "Err" /\ Len(upstream[r]) = 1
    /\ phase[q] = "done" /\ outcome[q].tag = "Ok" /\ Len(upstream[q]) = 1

\* Whether call r was answered by the protocol, with no handler run and no
\* upstream call made.
RejectedUnhandled(r) ==
  /\ phase[r] = "done"
  /\ upstream[r] = <<>>
  /\ outcome[r] = Pending
  /\ response[r].kind = "error"
  /\ response[r].code \in {-32601, -32602}

\* C5 as stated: a request naming an undeclared method, or giving a declared
\* method parameters of the wrong count or type, is rejected before any
\* handler runs, with no upstream call and with the protocol's own error.
C5_AnyMismatchRejected ==
  \A r \in Calls :
    phase[r] # "idle" =>
      IF request[r].name \notin Registered THEN RejectedUnhandled(r)
      ELSE LET m == MethodNamed(request[r].name)
               p == request[r].params
           IN  (TooFew(m, p) \/ TooMany(m, p) \/ WrongType(m, p)) =>
                 RejectedUnhandled(r)

\* C5 as amended: a request naming an undeclared method, leaving out a
\* required parameter, or giving a declared parameter a value of the wrong
\* type is rejected before any handler runs, with no upstream call and with
\* the protocol's own error (method not found, invalid params).
C5_Rejected ==
  \A r \in Calls :
    phase[r] # "idle" =>
      IF request[r].name \notin Registered
        THEN RejectedUnhandled(r) /\ response[r] = MethodNotFound
        ELSE LET m == MethodNamed(request[r].name)
                 p == request[r].params
             IN  (TooFew(m, p) \/ WrongType(m, p)) =>
                   RejectedUnhandled(r) /\ response[r] = InvalidParams

\* getConfirmedTokens with a limit that does not fit 8 bits was rejected.
C5_Witness ==
  /\ request[1] = [name |-> "zks_getConfirmedTokens", params |-> <<JNum(0), JNum(300)>>]
  /\ RejectedUnhandled(1)

\* C6: with several calls in flight at once, in whatever order their upstream
\* calls resolve and their handlers resume, each call's upstream request
\* carries its own name and parameters and each call's response is the result
\* or error of its own upstream call.
C6_NoCrossTalk ==
  \A r \in Calls :
    HandlerRan(r) =>
      /\ OwnCall(r)
      /\ phase[r] = "done" => OwnAnswer(r)

\* Two getTokenPrice calls for different tokens were in flight together; the
\* later one was answered first; each got the answer to its own call.
C6_Witness ==
  /\ Len(finished) >= 2 /\ finished[1] = 2 /\ finished[2] = 1
  /\ request[1] = [name |-> "zks_getTokenPrice", params |-> <<JAddr(0)>>]
  /\ request[2] = [name |-> "zks_getTokenPrice", params |-> <<JAddr(MaxVal)>>]
  /\ upstream[1][1].args # upstream[2][1].args
  /\ outcome[1] = Ok(9) /\ response[1] = [kind |-> "result", value |-> 9]
  /\ outcome[2] = Err(CallError(-32010, "unknown token"))
  /\ response[2].kind = "error"

\* C7: a call whose own upstream call has resolved is answered, whatever the
\* other calls are doing, also when another call's upstream call never
\* resolves.
C7_NotBlocked ==
  \A r \in Calls : (phase[r] = "completed") ~> (phase[r] = "done")

\* The first call is still waiting for the upstream while a call that came
\* after it has been answered from the upstream.
C7_Witness ==
  /\ phase[1] = "awaiting"
  /\ phase[2] = "done"
  /\ outcome[2] # Pending

\* C8: once a call has failed, the server still takes calls, and every call
\* that arrives after the failure is forwarded with its own parameters and
\* answered from its own upstream call, as it is when nothing has failed.
C8_FailuresLeaveNoTrace ==
  /\ ((\E q \in Calls : Failed(q)) /\ (\E r \in Calls : phase[r] = "idle")) =>
       /\ pc = "serving"
       /\ ENABLED (\E r \in Calls, req \in SampleRequests : Receive(r, req))
  /\ \A r \in Calls :
       (failedBefore[r] /\ HandlerRan(r)) =>
         /\ Len(upstream[r]) = 1
         /\ OwnCall(r)
         /\ phase[r] = "done" => OwnAnswer(r)

\* A call that arrived after another call had failed was answered with the
\* upstream's value.
C8_Witness ==
  \E r \in Calls :
    /\ failedBefore[r]
    /\ phase[r] = "done"
    /\ outcome[r] = Ok(9)
    /\ response[r] = [kind |-> "result", value |-> 9]

\* C9: when the listener on 127.0.0.1:7000 cannot be bound, run returns an
\* error value, main prints the failure message, and the process exits with
\* status 0, having served no call.
C9_BindFailureReported ==
  bound = "refused" =>
    /\ pc = "exited"
    /\ exitCode = <<0>>
    /\ \E i \in 1..Len(stdout) : stdout[i] = "Failed to start server"
    /\ \A r \in Calls : phase[r] = "idle"

\* The 21 names of the table, each behind the namespace and an underscore.
UnderscoreNames ==
  { "zks_estimateGasL1ToL2", "zks_getMainContract", "zks_getTestnetPaymaster",
    "zks_getBridgeContracts", "zks_L1ChainId", "zks_getConfirmedTokens",
    "zks_getTokenPrice", "zks_getAllAccountBalances", "zks_getL2ToL1MsgProof",
    "zks_getL2ToL1LogProof", "zks_L1BatchNumber", "zks_getL1BatchBlockRange",
    "zks_getBlockDetails", "zks_getTransactionDetails",
    "zks_getRawBlockTransactions", "zks_getL1BatchDetails",
    "zks_getBytecodeByHash", "zks_getL1GasPrice", "zks_getFeeParams",
    "zks_getProtocolVersion", "zks_getProof" }

\* C10 as stated: an inbound call named zks.L1ChainId with no parameters is
\* routed to the L1ChainId handler and answered with the upstream's value.
C10_DottedNameRouted ==
  \A r \in Calls :
    (phase[r] = "done" /\ request[r] = [name |-> "zks.L1ChainId", params |-> <<>>]) =>
      /\ HandlerRan(r)
      /\ response[r].kind = "result"

\* C10 as amended: every method is addressed as zks_<method>; exactly the 21
\* declared names are registered; a call named zks_L1ChainId with no
\* parameters is routed to the L1ChainId handler, which calls the upstream's
\* zks_L1ChainId, and when the upstream returns 9 the answer is 9.
C10_UnderscoreNameRouted ==
  /\ Registered = UnderscoreNames
  /\ Cardinality(Registered) = 21
  /\ \A r \in Calls :
       (phase[r] # "idle" /\ request[r] = [name |-> "zks_L1ChainId", params |-> <<>>]) =>
         /\ upstream[r] = << [name |-> "zks_L1ChainId", args |-> <<>>] >>
         /\ (phase[r] = "done" /\ outcome[r] = Ok(9)) =>
              response[r] = [kind |-> "result", value |-> 9]

\* zks_L1ChainId was called, the upstream returned 9, the caller got 9.
C10_Witness ==
  /\ phase[1] = "done"
  /\ request[1] = [name |-> "zks_L1ChainId", params |-> <<>>]
  /\ outcome[1] = Ok(9)
  /\ response[1] = [kind |-> "result", value |-> 9]

====
